---- MODULE Spec2Model ----
(***************************************************************************)
(* The Poseidon permutation, its fixed-arity hashes and their R1CS         *)
(* synthesis (bulletproofs_amcl/src/r1cs/gadgets/helper_constraints/       *)
(* poseidon.rs), as one state machine: a parameter block is constructed,   *)
(* the native permutation or hash is run on an input, and then the same    *)
(* input is synthesised into a prover's constraint system and bound to an  *)
(* image.  The field library, the constraint system, the non-zero gadget   *)
(* and the constant tables live outside poseidon.rs and are modelled from  *)
(* their documented interfaces.                                            *)
(***************************************************************************)
EXTENDS Integers, Sequences, FiniteSets, TLC

(***************************************************************************)
(* Bounds of the model.                                                    *)
(***************************************************************************)
\* R_F_beg + R_P + R_F_end of the round schedules the model constructs (besides
\* the schedule of one round of each kind)
MaxTotalRounds == 2
\* input vectors are drawn from the seeds 0..MaxInputSeed
MaxInputSeed == 3

(***************************************************************************)
(* FieldElement: a prime field, here the integers modulo P.                *)
(***************************************************************************)
P == 11
Fp == 0 .. (P - 1)

FAdd(a, b) == (a + b) % P
FSub(a, b) == (a + P - b) % P
FMul(a, b) == (a * b) % P
FSquare(a) == (a * a) % P
\* the inverse of a non-zero element; the outcome on zero is the library's
FInverse(a) == CHOOSE y \in Fp : (a * y) % P = 1
FFromU64(n) == n % P

(***************************************************************************)
(* Hex literals of the constant tables: "0x" followed by hex digits, a     *)
(* string being a sequence of characters.                                  *)
(***************************************************************************)
HexDigits == <<"0", "1", "2", "3", "4", "5", "6", "7", "8", "9", "a", "b", "c", "d", "e", "f">>

HexLiteral(v) == <<"0", "x", HexDigits[(v \div 16) + 1], HexDigits[(v % 16) + 1]>>

HexDigitValue(c) == (CHOOSE n \in 1..16 : HexDigits[n] = c) - 1

RECURSIVE HexAcc(_, _)
HexAcc(s, acc) == IF s = <<>> THEN acc ELSE HexAcc(Tail(s), acc * 16 + HexDigitValue(Head(s)))

\* FieldElement::from_hex
FromHex(s) == HexAcc(s, 0) % P

\* c.replace_range(..2, "")
StripPrefix(s) == SubSeq(s, 3, Len(s))

(***************************************************************************)
(* The constant tables ROUND_CONSTS_W_<w> and MDS_ENTRIES_W_<w>.  A table  *)
(* set names the tables the build ships: "std" is a generic full table,    *)
(* "zero_identity" has zero round constants and the identity matrix, and   *)
(* the others are malformed.                                               *)
(***************************************************************************)
TableSets == {"std", "zero_identity", "short", "missing_row", "long_row"}

\* rounds a full table provides constants for
TableRounds == MaxTotalRounds + 2

RoundConstValue(tables, w, n) == IF tables = "zero_identity" THEN 0 ELSE (n * n + 3 * n + w) % P

MdsValue(tables, w, i, j) ==
  IF tables = "zero_identity" THEN (IF i = j THEN 1 ELSE 0) ELSE (2 * i + 3 * j + i * j + w) % P

ROUND_CONSTS(tables, w) ==
  [n \in 1 .. (IF tables = "short" THEN w + 1 ELSE TableRounds * w) |-> HexLiteral(RoundConstValue(tables, w, n))]

MDS_ENTRIES(tables, w) ==
  [i \in 1 .. (IF tables = "missing_row" THEN w - 1 ELSE w) |->
     [j \in 1 .. (IF tables = "long_row" /\ i = w THEN w + 1 ELSE w) |-> HexLiteral(MdsValue(tables, w, i, j))]]

(***************************************************************************)
(* PoseidonParams::new.  A result is a record whose panic field is "" on   *)
(* success and the panic otherwise.                                        *)
(***************************************************************************)
SupportedWidth(width) == width = 3 \/ width = 5 \/ width = 9

\* faulty variant: the loop reads the table one entry ahead
RECURSIVE DecodeKeys_mut(_, _, _)
DecodeKeys_mut(table, i, cap) ==
  IF i > cap THEN <<>>
  ELSE <<FromHex(StripPrefix(table[i + 1]))>> \o DecodeKeys_mut(table, i + 1, cap)

RECURSIVE DecodeKeys(_, _, _)
DecodeKeys(table, i, cap) ==
  IF i > cap THEN <<>> ELSE <<FromHex(StripPrefix(table[i]))>> \o DecodeKeys(table, i + 1, cap)

get_round_keys(tables, width, total_rounds) ==
  LET cap == total_rounds * width
      table == ROUND_CONSTS(tables, width)
  IN IF Len(table) < cap
       THEN [panic |-> "Not enough round constants", value |-> <<>>]
       ELSE [panic |-> "", value |-> DecodeKeys(table, 1, cap)]

get_MDS_matrix(tables, width) ==
  LET table == MDS_ENTRIES(tables, width)
  IN IF Len(table) # width
       THEN [panic |-> "Incorrect width", value |-> <<>>]
       ELSE IF \E i \in 1..width : Len(table[i]) # width
         THEN [panic |-> "Incorrect width", value |-> <<>>]
         ELSE [panic |-> "",
               value |-> [i \in 1..width |-> [j \in 1..width |-> FromHex(StripPrefix(table[i][j]))]]]

NoParams ==
  [width |-> 0, full_rounds_beginning |-> 0, full_rounds_end |-> 0, partial_rounds |-> 0,
   round_keys |-> <<>>, MDS_matrix |-> <<>>]

PoseidonParams_new(tables, width, full_rounds_beginning, full_rounds_end, partial_rounds) ==
  IF ~SupportedWidth(width)
    THEN [panic |-> "Only width of 3, 5 or 9 are supported", value |-> NoParams]
    ELSE LET total_rounds == full_rounds_beginning + partial_rounds + full_rounds_end
             round_keys == get_round_keys(tables, width, total_rounds)
             matrix_2 == get_MDS_matrix(tables, width)
         IN IF round_keys.panic # "" THEN [panic |-> round_keys.panic, value |-> NoParams]
            ELSE IF matrix_2.panic # "" THEN [panic |-> matrix_2.panic, value |-> NoParams]
            ELSE [panic |-> "",
                  value |-> [width |-> width,
                             full_rounds_beginning |-> full_rounds_beginning,
                             full_rounds_end |-> full_rounds_end,
                             partial_rounds |-> partial_rounds,
                             round_keys |-> round_keys.value,
                             MDS_matrix |-> matrix_2.value]]

(***************************************************************************)
(* SboxType::apply_sbox on a value: the case where the field library's    *)
(* inverse returns on zero (with zero); the failing case is taken by the  *)
(* actions that call it.                                                   *)
(***************************************************************************)
SboxTypes == {"Cube", "Inverse", "Quint"}

apply_sbox(sbox_type, elem) ==
  CASE sbox_type = "Cube" -> FMul(FSquare(elem), elem)
    [] sbox_type = "Inverse" -> IF elem = 0 THEN 0 ELSE FInverse(elem)
    [] sbox_type = "Quint" -> FMul(FSquare(FSquare(elem)), elem)

(***************************************************************************)
(* Capacity constants and the fixed-arity hashes built on them.            *)
(***************************************************************************)
CAP_CONST_W_3 == 3
CAP_CONST_W_5 == 31
CAP_CONST_W_9 == 511

HashArities == {2, 4, 8}

\* the capacity constant Poseidon_hash_<k> prepends
CapConstOfHash(k) ==
  CASE k = 2 -> CAP_CONST_W_3
    [] k = 4 -> CAP_CONST_W_5
    [] k = 8 -> CAP_CONST_W_9

(***************************************************************************)
(* Variables and linear combinations of the constraint system.  A          *)
(* LinearCombination is its vector of (variable, coefficient) terms.       *)
(***************************************************************************)
VarOne == [kind |-> "One", idx |-> 0]
Committed(n) == [kind |-> "Committed", idx |-> n]
MultiplierLeft(n) == [kind |-> "MultiplierLeft", idx |-> n]
MultiplierRight(n) == [kind |-> "MultiplierRight", idx |-> n]
MultiplierOutput(n) == [kind |-> "MultiplierOutput", idx |-> n]
\* Option::None of a Variable
NoVar == [kind |-> "None", idx |-> 0]

\* LinearCombination::default()
LCDefault == <<>>
\* Variable.into()
LCFromVar(v) == <<[var |-> v, coeff |-> 1]>>
\* lc + scalar
LCAddScalar(lc, k) == Append(lc, [var |-> VarOne, coeff |-> k])
\* lc - scalar
LCSubScalar(lc, k) == Append(lc, [var |-> VarOne, coeff |-> FSub(0, k)])
\* scalar * lc
LCScale(k, lc) == [t \in 1..Len(lc) |-> [var |-> lc[t].var, coeff |-> FMul(k, lc[t].coeff)]]
\* lc += other
LCAdd(lc, other) == lc \o other

\* the coefficient `v` has in `lc`, summed over its terms from term t on
RECURSIVE CoeffOf(_, _, _)
CoeffOf(lc, v, t) ==
  IF t > Len(lc) THEN 0
  ELSE FAdd(IF lc[t].var = v THEN lc[t].coeff ELSE 0, CoeffOf(lc, v, t + 1))

\* lc.simplify(): one term per variable, holding the sum of its coefficients
RECURSIVE SimplifyFrom(_, _, _)
SimplifyFrom(lc, t, seen) ==
  IF t > Len(lc) THEN <<>>
  ELSE IF lc[t].var \in seen THEN SimplifyFrom(lc, t + 1, seen)
  ELSE <<[var |-> lc[t].var, coeff |-> CoeffOf(lc, lc[t].var, t)]>>
         \o SimplifyFrom(lc, t + 1, seen \cup {lc[t].var})

Simplify(lc) == SimplifyFrom(lc, 1, {})

(***************************************************************************)
(* The prover's constraint system: the committed values v, the wires       *)
(* a_L, a_R, a_O of the multiplication gates, the half-allocated gate      *)
(* pending_multiplier (-1: none) and the constraints lc = 0 emitted.       *)
(***************************************************************************)
NewProver(values) ==
  [v |-> values, a_L |-> <<>>, a_R |-> <<>>, a_O |-> <<>>, pending_multiplier |-> -1,
   constraints |-> <<>>]

ValueOf(c, var) ==
  CASE var.kind = "One" -> 1
    [] var.kind = "Committed" -> c.v[var.idx + 1]
    [] var.kind = "MultiplierLeft" -> c.a_L[var.idx + 1]
    [] var.kind = "MultiplierRight" -> c.a_R[var.idx + 1]
    [] var.kind = "MultiplierOutput" -> c.a_O[var.idx + 1]

\* cs.evaluate_lc(lc), the prover's
RECURSIVE EvalFrom(_, _, _)
EvalFrom(c, lc, t) ==
  IF t > Len(lc) THEN 0
  ELSE FAdd(FMul(lc[t].coeff, ValueOf(c, lc[t].var)), EvalFrom(c, lc, t + 1))

evaluate_lc(c, lc) == EvalFrom(c, lc, 1)

\* cs.constrain(lc)
constrain(c, lc) == [c EXCEPT !.constraints = Append(@, lc)]

\* cs.multiply(left, right): a new gate whose wires are bound to left and right
multiply(c, left, right) ==
  LET l == evaluate_lc(c, left)
      r == evaluate_lc(c, right)
      g == Len(c.a_L)
      wired == [c EXCEPT !.a_L = Append(@, l), !.a_R = Append(@, r), !.a_O = Append(@, FMul(l, r))]
  IN [cs |-> constrain(constrain(wired, Append(left, [var |-> MultiplierLeft(g), coeff |-> FSub(0, 1)])),
                       Append(right, [var |-> MultiplierRight(g), coeff |-> FSub(0, 1)])),
      left |-> MultiplierLeft(g), right |-> MultiplierRight(g), out |-> MultiplierOutput(g)]

\* cs.allocate_single(Some(value)): the left wire of a new gate, or the right wire of
\* the pending one, which also yields that gate's output wire
allocate_single(c, value) ==
  IF c.pending_multiplier = -1
    THEN LET g == Len(c.a_L)
         IN [cs |-> [c EXCEPT !.a_L = Append(@, value), !.a_R = Append(@, 0), !.a_O = Append(@, 0),
                              !.pending_multiplier = g],
             var |-> MultiplierLeft(g), out |-> NoVar]
    ELSE LET g == c.pending_multiplier
         IN [cs |-> [c EXCEPT !.a_R[g + 1] = value, !.a_O[g + 1] = FMul(c.a_L[g + 1], value),
                              !.pending_multiplier = -1],
             var |-> MultiplierRight(g), out |-> MultiplierOutput(g)]

\* constrain_lc_with_scalar(cs, lc, scalar): lc - scalar = 0
constrain_lc_with_scalar(c, lc, scalar) == constrain(c, LCSubScalar(lc, scalar))

\* is_nonzero_gadget(cs, x, x_inv): x * x_inv = 1
is_nonzero_gadget(c, x, x_inv) ==
  LET m == multiply(c, LCFromVar(x), LCFromVar(x_inv))
  IN constrain(m.cs, LCSubScalar(LCFromVar(m.out), 1))

\* the prover's witness satisfies every gate and every constraint emitted
Satisfied(c) ==
  /\ \A g \in 1..Len(c.a_L) : FMul(c.a_L[g], c.a_R[g]) = c.a_O[g]
  /\ \A n \in 1..Len(c.constraints) : evaluate_lc(c, c.constraints[n]) = 0

(***************************************************************************)
(* SboxType::synthesize_sbox.  The result holds the constraint system      *)
(* after the call, the variable returned and the panic, if any.            *)
(***************************************************************************)
\* faulty variant: the second gate multiplies the square by itself
synthesize_cube_sbox_mut(c, input_var, round_key) ==
  LET inp_plus_const == LCAddScalar(input_var, round_key)
      m1 == multiply(c, inp_plus_const, inp_plus_const)
      m2 == multiply(m1.cs, LCFromVar(m1.out), LCFromVar(m1.out))
  IN [cs |-> m2.cs, var |-> m2.out, panic |-> ""]

synthesize_cube_sbox(c, input_var, round_key) ==
  LET inp_plus_const == LCAddScalar(input_var, round_key)
      m1 == multiply(c, inp_plus_const, inp_plus_const)
      m2 == multiply(m1.cs, LCFromVar(m1.out), LCFromVar(m1.left))
  IN [cs |-> m2.cs, var |-> m2.out, panic |-> ""]

\* faulty variant: the last gate multiplies by the square instead of the input
synthesize_quint_sbox_mut(c, input_var, round_key) ==
  LET inp_plus_const == LCAddScalar(input_var, round_key)
      m1 == multiply(c, inp_plus_const, inp_plus_const)
      m2 == multiply(m1.cs, LCFromVar(m1.out), LCFromVar(m1.out))
      m3 == multiply(m2.cs, LCFromVar(m2.out), LCFromVar(m1.out))
  IN [cs |-> m3.cs, var |-> m3.out, panic |-> ""]

synthesize_quint_sbox(c, input_var, round_key) ==
  LET inp_plus_const == LCAddScalar(input_var, round_key)
      m1 == multiply(c, inp_plus_const, inp_plus_const)
      m2 == multiply(m1.cs, LCFromVar(m1.out), LCFromVar(m1.out))
      m3 == multiply(m2.cs, LCFromVar(m2.out), LCFromVar(m1.left))
  IN [cs |-> m3.cs, var |-> m3.out, panic |-> ""]

synthesize_inverse_sbox(c, input_var, round_key, inv0) ==
  LET inp_plus_const == LCAddScalar(input_var, round_key)
      val_l == evaluate_lc(c, inp_plus_const)
  IN IF val_l = 0 /\ inv0 = "fail"
       THEN [cs |-> c, var |-> NoVar, panic |-> "inverse of zero"]
       ELSE LET val_r == IF val_l = 0 THEN 0 ELSE FInverse(val_l)
                l == allocate_single(c, val_l)
                r == allocate_single(l.cs, val_r)
                nz == is_nonzero_gadget(r.cs, l.var, r.var)
            IN IF r.out = NoVar
                 THEN [cs |-> nz, var |-> NoVar, panic |-> "var_o.unwrap() on None"]
                 ELSE [cs |-> constrain_lc_with_scalar(nz, LCFromVar(r.out), 1),
                       var |-> r.var, panic |-> ""]

synthesize_sbox(sbox_type, c, input_var, round_key, inv0) ==
  CASE sbox_type = "Cube" -> synthesize_cube_sbox(c, input_var, round_key)
    [] sbox_type = "Inverse" -> synthesize_inverse_sbox(c, input_var, round_key, inv0)
    [] sbox_type = "Quint" -> synthesize_quint_sbox(c, input_var, round_key)

\* apply_linear_layer: next_inputs[i] += matrix_2[j][i] * sbox_outs[j], for j from j on
RECURSIVE LinearLayerTerms(_, _, _, _)
LinearLayerTerms(sbox_outs, matrix_2, col, j) ==
  IF j >= Len(sbox_outs) THEN <<>>
  ELSE LCScale(matrix_2[j + 1][col + 1], sbox_outs[j + 1]) \o LinearLayerTerms(sbox_outs, matrix_2, col, j + 1)

apply_linear_layer(sbox_outs, next_inputs, matrix_2) ==
  [s \in 1..Len(sbox_outs) |-> LCAdd(next_inputs[s], LinearLayerTerms(sbox_outs, matrix_2, s - 1, 0))]

VARIABLES
  pc,                  \* position of the caller: which call runs, and where in it
  panic,               \* "" or the fatal abort that ended the run
  tables,              \* the table set of the build
  new_args,            \* the arguments PoseidonParams::new was called with
  params,              \* the PoseidonParams constructed
  sbox,                \* the SboxType of the calls
  inverse_of_zero,     \* what FieldElement::inverse does on zero: "zero" or "fail"
  hash_arity,          \* 0: the permutation is called; k: the hash of arity k
  inputs,              \* the caller's input vector
  perm_input,          \* the input handed to Poseidon_permutation
  current_state,
  current_state_temp,
  round_keys_offset,
  sbox_calls,          \* apply_sbox calls of the native call
  native_result,       \* [status, err_width, err_expected, out, hash]
  phase,               \* "begin", "middle" or "end": which round loop runs
  round,               \* rounds of this loop completed
  i,                   \* slot index of the S-box loop
  cs,                  \* the prover's constraint system
  perm_input_vars,     \* the input handed to Poseidon_permutation_constraints
  gates_at_entry,      \* multiplication gates of cs when it was entered
  current_state_vars,
  sbox_outputs,
  round_keys_offset_c, \* round_keys_offset of Poseidon_permutation_constraints
  sbox_synths,         \* synthesize_sbox calls of the constraint call
  gadget_result        \* [status, out, hash, image]

ctlVars == <<pc, panic>>
envVars == <<tables, new_args, params>>
argVars == <<sbox, inverse_of_zero, hash_arity, inputs>>
nativeVars ==
  <<perm_input, current_state, current_state_temp, round_keys_offset, sbox_calls, native_result>>
loopVars == <<phase, round, i>>
circuitVars ==
  <<cs, perm_input_vars, gates_at_entry, current_state_vars, sbox_outputs, round_keys_offset_c,
    sbox_synths, gadget_result>>

vars == <<ctlVars, envVars, argVars, nativeVars, loopVars, circuitVars>>

Zeros(n) == [s \in 1..n |-> 0]

NoResult == [status |-> "none", err_width |-> 0, err_expected |-> 0, out |-> <<>>, hash |-> 0]

NoGadgetResult == [status |-> "none", out |-> <<>>, hash |-> LCDefault, image |-> 0]

\* rounds of the loop `ph`
RoundsOf(prm, ph) ==
  CASE ph = "begin" -> prm.full_rounds_beginning
    [] ph = "middle" -> prm.partial_rounds
    [] ph = "end" -> prm.full_rounds_end
    [] OTHER -> 0

\* the round loop that runs after `r` rounds of loop `ph` are complete: the same loop
\* while it has rounds left, else the next loop with rounds, else "return"
RECURSIVE LoopAfter(_, _, _)
LoopAfter(prm, ph, r) ==
  IF ph = "return" THEN [phase |-> "return", round |-> 0]
  ELSE IF r < RoundsOf(prm, ph) THEN [phase |-> ph, round |-> r]
  ELSE LoopAfter(prm, CASE ph = "begin" -> "middle" [] ph = "middle" -> "end" [] OTHER -> "return", 0)

\* inputs the caller draws: slot s (1-based) of the vector of seed a holds a*s + (s-1) div 2
InputVec(n, a) == [s \in 1..n |-> (a * s + ((s - 1) \div 2)) % P]

Widths == {3, 4, 5, 9}

\* the round schedules: all of at most MaxTotalRounds rounds, and one round of each kind
Schedules ==
  {sch \in [beg : 0..MaxTotalRounds, par : 0..MaxTotalRounds, end : 0..MaxTotalRounds] :
     sch.beg + sch.par + sch.end <= MaxTotalRounds}
    \cup {[beg |-> 1, par |-> 1, end |-> 1]}

Init ==
  /\ pc = "new"
  /\ panic = ""
  /\ tables \in TableSets
  /\ new_args = [width |-> 0, beg |-> 0, par |-> 0, end |-> 0]
  /\ params = NoParams
  /\ sbox = "Cube"
  /\ inverse_of_zero = "zero"
  /\ hash_arity = 0
  /\ inputs = <<>>
  /\ perm_input = <<>>
  /\ current_state = <<>>
  /\ current_state_temp = <<>>
  /\ round_keys_offset = 0
  /\ sbox_calls = 0
  /\ native_result = NoResult
  /\ phase = "begin"
  /\ round = 0
  /\ i = 0
  /\ cs = NewProver(<<>>)
  /\ perm_input_vars = <<>>
  /\ gates_at_entry = 0
  /\ current_state_vars = <<>>
  /\ sbox_outputs = <<>>
  /\ round_keys_offset_c = 0
  /\ sbox_synths = 0
  /\ gadget_result = NoGadgetResult

(***************************************************************************)
(* PoseidonParams::new(width, full_rounds_beginning, full_rounds_end,      *)
(* partial_rounds)                                                         *)
(***************************************************************************)
New ==
  /\ pc = "new"
  /\ \E width \in Widths, sch \in Schedules :
       LET res == PoseidonParams_new(tables, width, sch.beg, sch.end, sch.par)
       IN /\ new_args' = [width |-> width, beg |-> sch.beg, par |-> sch.par, end |-> sch.end]
          /\ IF res.panic # ""
               THEN /\ pc' = "panic"
                    /\ panic' = res.panic
                    /\ params' = params
               ELSE /\ pc' = "call"
                    /\ panic' = panic
                    /\ params' = res.value
  /\ UNCHANGED <<tables, argVars, nativeVars, loopVars, circuitVars>>

(***************************************************************************)
(* Entry of Poseidon_permutation: the width assertion and the locals.      *)
(***************************************************************************)
EnterPermutation(input) ==
  IF Len(input) # params.width
    THEN /\ pc' = "panic"
         /\ panic' = "assert_eq!(input.len(), width)"
         /\ UNCHANGED <<current_state, current_state_temp, round_keys_offset, loopVars>>
    ELSE LET at == LoopAfter(params, "begin", 0)
         IN /\ pc' = IF at.phase = "return" THEN "native_return" ELSE "native_sbox"
            /\ panic' = panic
            /\ current_state' = input
            /\ current_state_temp' = Zeros(params.width)
            /\ round_keys_offset' = 0
            /\ phase' = at.phase
            /\ round' = at.round
            /\ i' = 0

InverseOutcomes(sb) == IF sb = "Inverse" THEN {"zero", "fail"} ELSE {"zero"}

\* the caller calls Poseidon_permutation(input, params, sbox)
CallPermutation ==
  /\ pc = "call"
  /\ \E sb \in SboxTypes, n \in {params.width - 1, params.width}, a \in 0..MaxInputSeed :
       /\ sbox' = sb
       /\ \E iz \in InverseOutcomes(sb) : inverse_of_zero' = iz
       /\ hash_arity' = 0
       /\ inputs' = InputVec(n, a)
       /\ perm_input' = InputVec(n, a)
       /\ EnterPermutation(InputVec(n, a))
  /\ UNCHANGED <<envVars, sbox_calls, native_result, circuitVars>>

\* lengths of the input vector the caller hands to the hash of arity k
HashInputLens(k) == IF k + 1 = params.width THEN {k - 1, k, k + 1} ELSE {k}

\* faulty variant: the fields of the error are swapped
Poseidon_hash_mut(k, ins) ==
  IF Len(ins) # k
    THEN /\ pc' = "native_done"
         /\ native_result' = [NoResult EXCEPT !.status = "err", !.err_width = Len(ins),
                                              !.err_expected = k]
         /\ UNCHANGED <<panic, perm_input, current_state, current_state_temp, round_keys_offset,
                        loopVars>>
    ELSE /\ perm_input' = <<FFromU64(CapConstOfHash(k))>> \o ins
         /\ EnterPermutation(<<FFromU64(CapConstOfHash(k))>> \o ins)
         /\ native_result' = native_result

\* Poseidon_hash_2, Poseidon_hash_4, Poseidon_hash_8: the caller calls
\* Poseidon_hash_k(inputs, params, sbox)
Poseidon_hash(k, ins) ==
  IF Len(ins) # k
    THEN /\ pc' = "native_done"
         /\ native_result' = [NoResult EXCEPT !.status = "err", !.err_width = k,
                                              !.err_expected = Len(ins)]
         /\ UNCHANGED <<panic, perm_input, current_state, current_state_temp, round_keys_offset,
                        loopVars>>
    ELSE /\ perm_input' = <<FFromU64(CapConstOfHash(k))>> \o ins
         /\ EnterPermutation(<<FFromU64(CapConstOfHash(k))>> \o ins)
         /\ native_result' = native_result

CallHash ==
  /\ pc = "call"
  /\ \E sb \in SboxTypes, k \in HashArities, a \in 0..MaxInputSeed :
       \E n \in HashInputLens(k) :
         /\ sbox' = sb
         /\ \E iz \in InverseOutcomes(sb) : inverse_of_zero' = iz
         /\ hash_arity' = k
         /\ inputs' = InputVec(n, a)
         /\ Poseidon_hash(k, InputVec(n, a))
  /\ UNCHANGED <<envVars, sbox_calls, circuitVars>>

(***************************************************************************)
(* The rounds of Poseidon_permutation.                                     *)
(***************************************************************************)
\* faulty variant: the cursor is reset with each round's last slot
KeyCursorNext_mut(o) == IF (o + 1) % params.width = 0 THEN 0 ELSE o + 1

\* round_keys_offset += 1
KeyCursorNext(o) == o + 1

\* after slot i of an S-box loop: the next slot, or the step after the loop
AfterSlot(next_pc) ==
  IF i + 1 < params.width
    THEN pc' = pc /\ i' = i + 1
    ELSE pc' = next_pc /\ i' = 0

\* apply_full_rounds, S-box layer, slot i
NativeFullSbox ==
  /\ pc = "native_sbox"
  /\ phase \in {"begin", "end"}
  /\ LET y == FAdd(current_state[i + 1], params.round_keys[round_keys_offset + 1])
     IN IF sbox = "Inverse" /\ y = 0 /\ inverse_of_zero = "fail"
          THEN /\ pc' = "panic"
               /\ panic' = "inverse of zero"
               /\ UNCHANGED <<current_state, round_keys_offset, i, sbox_calls>>
          ELSE /\ current_state' = [current_state EXCEPT ![i + 1] = apply_sbox(sbox, y)]
               /\ round_keys_offset' = KeyCursorNext(round_keys_offset)
               /\ sbox_calls' = sbox_calls + 1
               /\ AfterSlot("native_linear")
               /\ panic' = panic
  /\ UNCHANGED <<envVars, argVars, perm_input, current_state_temp, native_result, phase, round,
                 circuitVars>>

\* partial round, round-key loop, slot i
NativePartialKey ==
  /\ pc = "native_sbox"
  /\ phase = "middle"
  /\ current_state' = [current_state EXCEPT
                         ![i + 1] = FAdd(current_state[i + 1], params.round_keys[round_keys_offset + 1])]
  /\ round_keys_offset' = KeyCursorNext(round_keys_offset)
  /\ AfterSlot("native_partial_sbox")
  /\ UNCHANGED <<panic, envVars, argVars, perm_input, current_state_temp, sbox_calls, native_result,
                 phase, round, circuitVars>>

\* faulty variant: a partial round applies the S-box to the first element
PartialSboxSlot_mut(width) == 0

\* the slot a partial round applies the S-box to (0-based)
PartialSboxSlot(width) == width - 1

\* faulty variant: a partial round of the constraints synthesises every slot
IsPartialSboxSlot_mut(slot, width) == TRUE

\* if i == width - 1: whether a partial round of the constraints synthesises slot i
IsPartialSboxSlot(slot, width) == slot = width - 1

\* partial round: the S-box on the last element of the state
NativePartialSbox ==
  /\ pc = "native_partial_sbox"
  /\ LET last == PartialSboxSlot(params.width)
         y == current_state[last + 1]
     IN IF sbox = "Inverse" /\ y = 0 /\ inverse_of_zero = "fail"
          THEN /\ pc' = "panic"
               /\ panic' = "inverse of zero"
               /\ UNCHANGED <<current_state, sbox_calls>>
          ELSE /\ current_state' = [current_state EXCEPT ![last + 1] = apply_sbox(sbox, y)]
               /\ sbox_calls' = sbox_calls + 1
               /\ pc' = "native_linear"
               /\ panic' = panic
  /\ UNCHANGED <<envVars, argVars, perm_input, current_state_temp, round_keys_offset, native_result,
                 loopVars, circuitVars>>

\* faulty variant: output col is the inner product with row col of the matrix
RECURSIVE MdsColumnSum_mut(_, _, _, _)
MdsColumnSum_mut(state, matrix, col, j) ==
  IF j >= Len(state) THEN 0
  ELSE FAdd(FMul(state[j + 1], matrix[col + 1][j + 1]),
            MdsColumnSum_mut(state, matrix, col, j + 1))

\* sum over j in j..width-1 of state[j] * MDS_matrix[j][col]  (0-based j, col)
RECURSIVE MdsColumnSum(_, _, _, _)
MdsColumnSum(state, matrix, col, j) ==
  IF j >= Len(state) THEN 0
  ELSE FAdd(FMul(state[j + 1], matrix[j + 1][col + 1]), MdsColumnSum(state, matrix, col, j + 1))

\* linear layer: current_state_temp[i] += current_state[j] * MDS_matrix[j][i]
NativeLinearLayer(state, temp, matrix) ==
  [s \in 1..Len(temp) |-> FAdd(temp[s], MdsColumnSum(state, matrix, s - 1, 0))]

\* for i in 0..width { current_state[i] = current_state_temp.remove(0);
\*                     current_state_temp.push(zero) }, from slot s on
RECURSIVE MoveTemp(_, _, _)
MoveTemp(state, temp, s) ==
  IF s >= Len(state) THEN [state |-> state, temp |-> temp]
  ELSE MoveTemp([state EXCEPT ![s + 1] = Head(temp)], Append(Tail(temp), 0), s + 1)

\* linear layer of a native round, and its output becoming the next round's input
NativeLinear ==
  /\ pc = "native_linear"
  /\ LET mixed == NativeLinearLayer(current_state, current_state_temp, params.MDS_matrix)
         moved == MoveTemp(current_state, mixed, 0)
         at == LoopAfter(params, phase, round + 1)
     IN /\ current_state' = moved.state
        /\ current_state_temp' = moved.temp
        /\ phase' = at.phase
        /\ round' = at.round
        /\ pc' = IF at.phase = "return" THEN "native_return" ELSE "native_sbox"
  /\ UNCHANGED <<panic, envVars, argVars, perm_input, round_keys_offset, sbox_calls, native_result,
                 i, circuitVars>>

\* faulty variant: the hash returns the capacity slot of the output
HashOutputSlot_mut == 1 - 1

\* the element of the permutation's output a hash returns: .remove(1)
HashOutputSlot == 1

\* Poseidon_permutation returns current_state; Poseidon_hash_k takes .remove(1) of it
NativeReturn ==
  /\ pc = "native_return"
  /\ native_result' = [NoResult EXCEPT !.status = "ok", !.out = current_state,
                                       !.hash = IF hash_arity = 0 THEN 0
                                                ELSE current_state[HashOutputSlot + 1]]
  /\ pc' = "native_done"
  /\ UNCHANGED <<panic, envVars, argVars, perm_input, current_state, current_state_temp,
                 round_keys_offset, sbox_calls, loopVars, circuitVars>>

(***************************************************************************)
(* The prover: Poseidon_permutation_gadget or Poseidon_hash_k_gadget on    *)
(* variables committed to the same inputs.                                 *)
(***************************************************************************)
\* entry of Poseidon_permutation_constraints on the constraint system c
EnterConstraints(c, input) ==
  IF Len(input) # params.width
    THEN /\ pc' = "panic"
         /\ panic' = "assert_eq!(input.len(), width)"
         /\ UNCHANGED <<cs, perm_input_vars, gates_at_entry, current_state_vars, sbox_outputs,
                        round_keys_offset_c, loopVars>>
    ELSE LET at == LoopAfter(params, "begin", 0)
         IN /\ pc' = IF at.phase = "return" THEN "cs_return" ELSE "cs_sbox"
            /\ panic' = panic
            /\ cs' = c
            /\ perm_input_vars' = input
            /\ gates_at_entry' = Len(c.a_L)
            /\ current_state_vars' = input
            /\ sbox_outputs' = [s \in 1..params.width |-> LCDefault]
            /\ round_keys_offset_c' = 0
            /\ phase' = at.phase
            /\ round' = at.round
            /\ i' = 0

\* the caller's constraint system: the inputs committed (then the capacity constant, for
\* a hash), and possibly one allocate_single left half-way
CallerProver(values, half_gate) ==
  IF half_gate THEN allocate_single(NewProver(values), 1).cs ELSE NewProver(values)

\* Poseidon_hash_2_constraints, _4_, _8_
Poseidon_hash_constraints(c, k, ins, capacity_const) ==
  IF Len(ins) # k
    THEN /\ pc' = "panic"
         /\ panic' = "assert_eq!(inputs.len(), k)"
         /\ UNCHANGED <<cs, perm_input_vars, gates_at_entry, current_state_vars, sbox_outputs,
                        round_keys_offset_c, loopVars>>
    ELSE EnterConstraints(c, <<capacity_const>> \o ins)

\* whether the caller left an allocate_single half-way: only allocate_single reads
\* pending_multiplier, and only the Inverse S-box calls it
HalfGates(sb) == IF sb = "Inverse" THEN BOOLEAN ELSE {FALSE}

\* the caller calls Poseidon_permutation_gadget(cs, input, params, sbox, output), or
\* Poseidon_hash_k_gadget(cs, input, capacity_const, params, sbox, image)
CallGadget ==
  /\ pc = "native_done"
  /\ \E half_gate \in HalfGates(sbox) :
       LET n == Len(inputs)
           in_vars == [s \in 1..n |-> LCFromVar(Committed(s - 1))]
       IN IF hash_arity = 0
            THEN EnterConstraints(CallerProver(inputs, half_gate), in_vars)
            ELSE Poseidon_hash_constraints(
                   CallerProver(Append(inputs, FFromU64(CapConstOfHash(hash_arity))), half_gate),
                   hash_arity, in_vars, LCFromVar(Committed(n)))
  /\ UNCHANGED <<envVars, argVars, nativeVars, sbox_synths, gadget_result>>

\* apply_full_rounds of the constraints, S-box layer, slot i
CsFullSbox ==
  /\ pc = "cs_sbox"
  /\ phase \in {"begin", "end"}
  /\ LET round_key == params.round_keys[round_keys_offset_c + 1]
         res == synthesize_sbox(sbox, cs, current_state_vars[i + 1], round_key, inverse_of_zero)
     IN IF res.panic # ""
          THEN /\ pc' = "panic"
               /\ panic' = res.panic
               /\ UNCHANGED <<cs, sbox_outputs, round_keys_offset_c, sbox_synths, i>>
          ELSE /\ cs' = res.cs
               /\ sbox_outputs' = [sbox_outputs EXCEPT ![i + 1] = LCFromVar(res.var)]
               /\ round_keys_offset_c' = KeyCursorNext(round_keys_offset_c)
               /\ sbox_synths' = sbox_synths + 1
               /\ AfterSlot("cs_linear")
               /\ panic' = panic
  /\ UNCHANGED <<envVars, argVars, nativeVars, phase, round, perm_input_vars, gates_at_entry,
                 current_state_vars, gadget_result>>

\* partial round of the constraints, S-box layer, slot i
CsPartialSbox ==
  /\ pc = "cs_sbox"
  /\ phase = "middle"
  /\ LET round_key == params.round_keys[round_keys_offset_c + 1]
     IN IF IsPartialSboxSlot(i, params.width)
          THEN LET res == synthesize_sbox(sbox, cs, current_state_vars[i + 1], round_key,
                                          inverse_of_zero)
               IN IF res.panic # ""
                    THEN /\ pc' = "panic"
                         /\ panic' = res.panic
                         /\ UNCHANGED <<cs, sbox_outputs, round_keys_offset_c, sbox_synths, i>>
                    ELSE /\ cs' = res.cs
                         /\ sbox_outputs' = [sbox_outputs EXCEPT ![i + 1] = LCFromVar(res.var)]
                         /\ round_keys_offset_c' = KeyCursorNext(round_keys_offset_c)
                         /\ sbox_synths' = sbox_synths + 1
                         /\ AfterSlot("cs_linear")
                         /\ panic' = panic
          ELSE /\ sbox_outputs' = [sbox_outputs EXCEPT
                                     ![i + 1] = LCAddScalar(current_state_vars[i + 1], round_key)]
               /\ round_keys_offset_c' = KeyCursorNext(round_keys_offset_c)
               /\ AfterSlot("cs_linear")
               /\ UNCHANGED <<panic, cs, sbox_synths>>
  /\ UNCHANGED <<envVars, argVars, nativeVars, phase, round, perm_input_vars, gates_at_entry,
                 current_state_vars, gadget_result>>

\* linear layer of a constraint round; the next round starts from fresh sbox_outputs
CsLinear ==
  /\ pc = "cs_linear"
  /\ LET next_input_vars ==
           apply_linear_layer(sbox_outputs, [s \in 1..params.width |-> LCDefault], params.MDS_matrix)
         at == LoopAfter(params, phase, round + 1)
     IN /\ current_state_vars' =
             [s \in 1..params.width |->
                IF phase = "middle" THEN Simplify(next_input_vars[s]) ELSE next_input_vars[s]]
        /\ sbox_outputs' = [s \in 1..params.width |-> LCDefault]
        /\ phase' = at.phase
        /\ round' = at.round
        /\ pc' = IF at.phase = "return" THEN "cs_return" ELSE "cs_sbox"
  /\ UNCHANGED <<panic, envVars, argVars, nativeVars, i, cs, perm_input_vars, gates_at_entry,
                 round_keys_offset_c, sbox_synths, gadget_result>>

\* constrain_lc_with_scalar on each output against `output`, from slot s on
RECURSIVE ConstrainOutputs(_, _, _, _)
ConstrainOutputs(c, lcs, output, s) ==
  IF s >= Len(lcs) THEN c
  ELSE ConstrainOutputs(constrain_lc_with_scalar(c, lcs[s + 1], output[s + 1]), lcs, output, s + 1)

\* Poseidon_permutation_constraints returns current_state_vars; the permutation gadget
\* binds each output to the native output
PermutationGadgetReturn ==
  /\ pc = "cs_return"
  /\ hash_arity = 0
  /\ cs' = ConstrainOutputs(cs, current_state_vars, native_result.out, 0)
  /\ gadget_result' = [NoGadgetResult EXCEPT !.status = "ok", !.out = current_state_vars]
  /\ pc' = "done"
  /\ UNCHANGED <<panic, envVars, argVars, nativeVars, loopVars, perm_input_vars, gates_at_entry,
                 current_state_vars, sbox_outputs, round_keys_offset_c, sbox_synths>>

\* Poseidon_hash_k_constraints returns permutation_output[1]; the hash gadget binds it to image
HashGadgetReturn ==
  /\ pc = "cs_return"
  /\ hash_arity # 0
  /\ \E image \in Fp :
       LET hash == current_state_vars[HashOutputSlot + 1]
       IN /\ cs' = constrain_lc_with_scalar(cs, hash, image)
          /\ gadget_result' = [status |-> "ok", out |-> current_state_vars, hash |-> hash,
                               image |-> image]
  /\ pc' = "done"
  /\ UNCHANGED <<panic, envVars, argVars, nativeVars, loopVars, perm_input_vars, gates_at_entry,
                 current_state_vars, sbox_outputs, round_keys_offset_c, sbox_synths>>

Next ==
  \/ New
  \/ CallPermutation
  \/ CallHash
  \/ NativeFullSbox
  \/ NativePartialKey
  \/ NativePartialSbox
  \/ NativeLinear
  \/ NativeReturn
  \/ CallGadget
  \/ CsFullSbox
  \/ CsPartialSbox
  \/ CsLinear
  \/ PermutationGadgetReturn
  \/ HashGadgetReturn

Spec == Init /\ [][Next]_vars

(***************************************************************************)
(* Properties.                                                             *)
(***************************************************************************)
TotalRounds(prm) == prm.full_rounds_beginning + prm.partial_rounds + prm.full_rounds_end

\* S-box applications of one permutation
SboxCount(prm) ==
  prm.width * (prm.full_rounds_beginning + prm.full_rounds_end) + prm.partial_rounds

\* rounds complete before the round in progress, over the three loops
RoundsBefore ==
  CASE phase = "begin" -> round
    [] phase = "middle" -> params.full_rounds_beginning + round
    [] phase = "end" -> params.full_rounds_beginning + params.partial_rounds + round
    [] OTHER -> TotalRounds(params)

\* Poseidon_permutation_constraints has returned
ConstraintsReturned == pc \in {"cs_return", "done"}

\* C1: whenever Poseidon_permutation_constraints returns, each linear combination it
\* returns evaluates, under the prover's witness, to the field element the native
\* permutation returned in the same slot for the same parameters, S-box and input.
C1_Consistency ==
  ConstraintsReturned =>
    /\ Len(current_state_vars) = Len(native_result.out)
    /\ \A s \in 1..Len(current_state_vars) :
         evaluate_lc(cs, current_state_vars[s]) = native_result.out[s]

\* C1: a width-9 synthesis of one round of each kind has returned outputs that differ
\* from the inputs
C1_Witness ==
  /\ pc = "done"
  /\ tables = "std"
  /\ params.width = 9
  /\ params.full_rounds_beginning = 1 /\ params.partial_rounds = 1 /\ params.full_rounds_end = 1
  /\ native_result.out # perm_input
  /\ \E s \in 1..9 : Len(current_state_vars[s]) > 1

\* the cursor of a permutation at position `at` of its S-box loop, linear layer or return
CursorAt(o, sbox_pc, after_pcs, return_pcs) ==
  /\ pc = sbox_pc =>
       /\ o = RoundsBefore * params.width + i
       /\ o < Len(params.round_keys)
  /\ pc \in after_pcs => o = (RoundsBefore + 1) * params.width
  /\ pc \in return_pcs => o = TotalRounds(params) * params.width

CursorInv ==
  /\ CursorAt(round_keys_offset, "native_sbox", {"native_partial_sbox", "native_linear"},
              {"native_return"})
  /\ native_result.status = "ok" => round_keys_offset = TotalRounds(params) * params.width
  /\ CursorAt(round_keys_offset_c, "cs_sbox", {"cs_linear"}, {"cs_return", "done"})

\* a step consumes one round key exactly when it handles a slot, and none otherwise
CursorStep ==
  /\ round_keys_offset' =
       IF pc = "native_sbox" /\ pc' # "panic" THEN round_keys_offset + 1 ELSE round_keys_offset
  /\ round_keys_offset_c' =
       IF pc = "cs_sbox" /\ pc' # "panic" THEN round_keys_offset_c + 1 ELSE round_keys_offset_c

\* C2: in both permutations the round-key cursor starts at 0, moves only by +1, once per
\* slot per round, reads round_keys[r*w + i] for round r and slot i, always inside
\* round_keys, and equals (R_F_beg + R_P + R_F_end) * w on return.
C2_KeyCursor ==
  /\ round_keys_offset = 0 /\ round_keys_offset_c = 0
  /\ []CursorInv
  /\ [][CursorStep]_vars

\* C2: both permutations have run one round of each kind at width 5 and returned
C2_Witness ==
  /\ pc = "done"
  /\ params.width = 5
  /\ params.full_rounds_beginning = 1 /\ params.partial_rounds = 1 /\ params.full_rounds_end = 1
  /\ round_keys_offset = 15 /\ round_keys_offset_c = 15

\* C3: Poseidon_hash_k on an input vector whose length is not k returns
\* IncorrectWidthForPoseidon{width: k, expected: the length} without running the
\* permutation; on k inputs it never returns that error.
C3_HashArityError ==
  (hash_arity # 0 /\ pc \notin {"new", "call"}) =>
    IF Len(inputs) # hash_arity
      THEN /\ native_result = [NoResult EXCEPT !.status = "err", !.err_width = hash_arity,
                                               !.err_expected = Len(inputs)]
           /\ perm_input = <<>> /\ current_state = <<>>
           /\ sbox_calls = 0 /\ round_keys_offset = 0
      ELSE native_result.status # "err"

\* C3: Poseidon_hash_8 was called with 9 inputs and returned the error
C3_Witness ==
  /\ hash_arity = 8
  /\ Len(inputs) = 9
  /\ native_result.status = "err"
  /\ native_result.err_width = 8 /\ native_result.err_expected = 9

\* C4: at every hash entry point (Poseidon_hash_k, Poseidon_hash_k_constraints,
\* Poseidon_hash_k_gadget) a number of inputs different from k is reported as the error
\* value IncorrectWidthForPoseidon and never ends in a fatal abort.
C4_ArityErrorRecoverable ==
  (hash_arity # 0 /\ Len(inputs) # hash_arity) =>
    /\ pc # "panic"
    /\ pc \notin {"new", "call"} => native_result.status = "err"

\* C5: the capacity constant prepended at width w = k + 1 has exactly its least
\* significant w - 1 bits set: it is 2^(w-1) - 1.
C5_CapacityConstant ==
  (hash_arity # 0 /\ native_result.status = "ok") =>
    /\ params.width = hash_arity + 1
    /\ CapConstOfHash(hash_arity) = 2 ^ (params.width - 1) - 1

\* C6: Poseidon_hash_k on k inputs hands [C_w, inputs[0], ..., inputs[k-1]] to the
\* permutation and returns element 1 of its output; Poseidon_hash_k_constraints hands
\* [capacity_const, inputs...] to the constraints and returns their output 1.
C6_HashIsOutputOne ==
  /\ (hash_arity # 0 /\ native_result.status = "ok") =>
       /\ Len(inputs) = hash_arity
       /\ perm_input = <<CapConstOfHash(hash_arity) % P>> \o inputs
       /\ Len(native_result.out) = hash_arity + 1
       /\ native_result.hash = native_result.out[2]
  /\ (hash_arity # 0 /\ gadget_result.status = "ok") =>
       /\ Len(perm_input_vars) = hash_arity + 1
       /\ perm_input_vars[1] = LCFromVar(Committed(hash_arity))
       /\ evaluate_lc(cs, perm_input_vars[1]) = CapConstOfHash(hash_arity) % P
       /\ \A s \in 1..hash_arity :
            /\ perm_input_vars[s + 1] = LCFromVar(Committed(s - 1))
            /\ evaluate_lc(cs, perm_input_vars[s + 1]) = inputs[s]
       /\ gadget_result.hash = gadget_result.out[2]
       /\ evaluate_lc(cs, gadget_result.hash) = native_result.out[2]

\* C6: a hash of arity 4 has returned, natively and as constraints, and outputs 0 and 1
\* of its permutation differ
C6_Witness ==
  /\ pc = "done"
  /\ hash_arity = 4
  /\ params.full_rounds_beginning = 1 /\ params.partial_rounds = 1
  /\ native_result.out[1] # native_result.out[2]
  /\ native_result.hash = native_result.out[2]

\* PoseidonParams::new must fail on these arguments and tables
NewMustFail(tbl, a) ==
  \/ a.width \notin {3, 5, 9}
  \/ Len(ROUND_CONSTS(tbl, a.width)) < (a.beg + a.par + a.end) * a.width
  \/ Len(MDS_ENTRIES(tbl, a.width)) # a.width
  \/ \E r \in 1..Len(MDS_ENTRIES(tbl, a.width)) : Len(MDS_ENTRIES(tbl, a.width)[r]) # a.width

\* C7: PoseidonParams::new fails, leaving no parameter block, when the width is not 3,
\* 5 or 9, when the table has fewer than (R_F_beg + R_P + R_F_end) * w round constants,
\* or when the MDS table is not w rows of w entries; otherwise round_keys is the first
\* (R_F_beg + R_P + R_F_end) * w constants of the table, in order, and MDS_matrix[i][j]
\* is entry [i][j] of the table.
C7_ParamsNew ==
  pc \in {"call", "panic"} =>
    IF NewMustFail(tables, new_args)
      THEN /\ pc = "panic"
           /\ panic \in {"Only width of 3, 5 or 9 are supported", "Not enough round constants",
                         "Incorrect width"}
           /\ params = NoParams
      ELSE /\ params.width = new_args.width
           /\ params.full_rounds_beginning = new_args.beg
           /\ params.partial_rounds = new_args.par
           /\ params.full_rounds_end = new_args.end
           /\ Len(params.round_keys) = TotalRounds(params) * params.width
           /\ \A n \in 1..Len(params.round_keys) :
                params.round_keys[n] = RoundConstValue(tables, params.width, n)
           /\ Len(params.MDS_matrix) = params.width
           /\ \A r \in 1..params.width :
                /\ Len(params.MDS_matrix[r]) = params.width
                /\ \A c \in 1..params.width :
                     params.MDS_matrix[r][c] = MdsValue(tables, params.width, r, c)

\* C7: a parameter block of width 9 was built whose round keys are a strict, non-empty
\* prefix of the tabulated constants
C7_Witness ==
  /\ pc = "call"
  /\ params.width = 9
  /\ Len(params.round_keys) = 18
  /\ Len(ROUND_CONSTS(tables, 9)) > 18
  /\ \E n \in 1..18 : params.round_keys[n] # 0

\* C7: PoseidonParams::new failed on a table with too few round constants
C7_WitnessShort ==
  /\ pc = "panic"
  /\ panic = "Not enough round constants"
  /\ tables = "short"

\* the hash gadget has returned
HashGadgetDone == pc = "done" /\ hash_arity # 0

\* an Inverse S-box of the synthesis was applied to x + k = 0: the left wire it allocated
\* carries 0
InverseOfZeroSynthesised == sbox = "Inverse" /\ \E g \in 1..Len(cs.a_L) : cs.a_L[g] = 0

RECURSIVE SboxIter(_, _, _)
SboxIter(sb, n, x) == IF n = 0 THEN x ELSE SboxIter(sb, n - 1, apply_sbox(sb, x))

\* C9: with zero round constants and the identity MDS matrix, output slot i < w-1 is
\* the S-box applied R_F_beg + R_F_end times to input[i] and output slot w-1 is the
\* S-box applied R_F_beg + R_P + R_F_end times to input[w-1].
C9_SboxPatternOnly ==
  (tables = "zero_identity" /\ native_result.status = "ok") =>
    /\ Len(native_result.out) = params.width
    /\ \A s \in 1..params.width :
         native_result.out[s] =
           SboxIter(sbox,
                    IF s = params.width THEN TotalRounds(params)
                    ELSE params.full_rounds_beginning + params.full_rounds_end,
                    perm_input[s])

\* C9: a permutation with zero constants and identity matrix ran a full and a partial
\* round on an input whose slots are not all fixed by the S-box
C9_Witness ==
  /\ tables = "zero_identity"
  /\ native_result.status = "ok"
  /\ hash_arity = 0
  /\ sbox = "Cube"
  /\ params.full_rounds_beginning = 1 /\ params.partial_rounds = 1
  /\ native_result.out # perm_input
  /\ native_result.out[1] # native_result.out[params.width]

\* multiplication gates synthesize_sbox emits for one S-box
GatesPerSbox(sb) == CASE sb = "Cube" -> 2 [] sb = "Quint" -> 3 [] OTHER -> 0

GatesEmitted == Len(cs.a_L) - gates_at_entry

SboxCountInv ==
  /\ native_result.status = "ok" => sbox_calls = SboxCount(params)
  /\ ConstraintsReturned =>
       /\ sbox_synths = SboxCount(params)
       /\ sbox \in {"Cube", "Quint"} => GatesEmitted = GatesPerSbox(sbox) * SboxCount(params)
  /\ (pc \in {"cs_sbox", "cs_linear"} /\ sbox \in {"Cube", "Quint"}) =>
       GatesEmitted = GatesPerSbox(sbox) * sbox_synths
  \* the S-box outputs of a partial round, slots 0..w-2: the state plus the round key
  /\ (pc = "cs_linear" /\ phase = "middle") =>
       \A s \in 1..(params.width - 1) :
         sbox_outputs[s] =
           LCAddScalar(current_state_vars[s],
                       params.round_keys[RoundsBefore * params.width + s])

\* a partial round's S-box step changes slot w-1 only, and a partial round of the
\* constraints emits gates for slot w-1 only
PartialSboxStep ==
  /\ (pc = "native_partial_sbox" /\ pc' # "panic") =>
       /\ \A s \in 1..(params.width - 1) : current_state'[s] = current_state[s]
       /\ current_state'[params.width] = apply_sbox(sbox, current_state[params.width])
       /\ sbox_calls' = sbox_calls + 1
  /\ (pc = "native_sbox" /\ phase = "middle") => sbox_calls' = sbox_calls
  /\ (pc = "cs_sbox" /\ phase = "middle" /\ i < params.width - 1) =>
       /\ cs' = cs
       /\ sbox_synths' = sbox_synths
  /\ (pc = "cs_sbox" /\ phase = "middle" /\ i = params.width - 1 /\ pc' # "panic") =>
       sbox_synths' = sbox_synths + 1

\* C10: a partial round applies the S-box to slot w-1 only, in both paths; a permutation
\* applies w*(R_F_beg + R_F_end) + R_P S-boxes, and the constraints emit 2 gates per
\* S-box for Cube and 3 for Quint, none for slots 0..w-2 of a partial round.
C10_PartialRoundSbox ==
  /\ []SboxCountInv
  /\ [][PartialSboxStep]_vars

\* C10: the constraints of one round of each kind at width 9 with the Quint S-box have
\* returned, 19 S-boxes and 57 gates
C10_Witness ==
  /\ pc = "done"
  /\ sbox = "Quint"
  /\ params.width = 9
  /\ params.full_rounds_beginning = 1 /\ params.partial_rounds = 1 /\ params.full_rounds_end = 1
  /\ sbox_calls = 19 /\ sbox_synths = 19
  /\ GatesEmitted = 57

\* column i and row i of a matrix, as vectors
ColumnOf(matrix, col) == [j \in 1..Len(matrix) |-> matrix[j][col]]

RowOf(matrix, row) == matrix[row]

\* u[1]*v[1] + ... + u[n]*v[n] in the field
RECURSIVE InnerProduct(_, _, _)
InnerProduct(u, v, n) ==
  IF n = 0 THEN 0 ELSE (InnerProduct(u, v, n - 1) + u[n] * v[n]) % P

\* the values of the S-box outputs of the round in progress under the prover's witness
SboxOutputValues == [s \in 1..params.width |-> evaluate_lc(cs, sbox_outputs[s])]

\* the accumulator of the native linear layer is all-zero whenever a round may start
\* or its linear layer is about to run
TempZeroInv ==
  pc \in {"native_sbox", "native_partial_sbox", "native_linear", "native_return"} =>
    current_state_temp = Zeros(params.width)

\* a linear-layer step of either path maps the post-S-box state of its round to the
\* inner products with the columns of MDS_matrix, and nothing else
LinearLayerStep ==
  /\ pc = "native_linear" =>
       /\ current_state' =
            [s \in 1..params.width |->
               InnerProduct(current_state, ColumnOf(params.MDS_matrix, s), params.width)]
       /\ current_state_temp' = Zeros(params.width)
  /\ pc = "cs_linear" =>
       /\ cs' = cs
       /\ \A s \in 1..params.width :
            evaluate_lc(cs, current_state_vars'[s]) =
              InnerProduct(SboxOutputValues, ColumnOf(params.MDS_matrix, s), params.width)

\* C11: in every round of both paths the linear layer computes
\* next[i] = sum over j of state[j] * M[j][i] from the post-S-box state of that round
\* only (column i of M, not row i), into an accumulator that is all-zero when the
\* round starts.
C11_LinearLayer ==
  /\ []TempZeroInv
  /\ [][LinearLayerStep]_vars

\* C11: the linear layer of a partial round of the constraints is about to run, after
\* the native permutation went through the same rounds, on a state whose products with
\* the columns of the matrix differ from those with its rows
C11_Witness ==
  /\ pc = "cs_linear"
  /\ phase = "middle"
  /\ tables = "std"
  /\ native_result.status = "ok"
  /\ \E s \in 1..params.width :
       InnerProduct(SboxOutputValues, ColumnOf(params.MDS_matrix, s), params.width)
         # InnerProduct(SboxOutputValues, RowOf(params.MDS_matrix, s), params.width)

\* the step just taken synthesised an Inverse S-box: the last slot of a round, or the
\* slot before the one a full round handles next
InverseJustSynthesised ==
  /\ sbox = "Inverse"
  /\ \/ pc = "cs_linear"
     \/ pc = "cs_sbox" /\ phase \in {"begin", "end"} /\ i >= 1

\* the slot of that S-box, from 1
InverseSlot == IF pc = "cs_linear" THEN params.width ELSE i

\* inp_plus_const of that S-box: input_var + round_key
InverseInput ==
  LCAddScalar(current_state_vars[InverseSlot], params.round_keys[round_keys_offset_c])

\* the gate whose left and right wires are var_l and var_r; the gate of the non-zero
\* gadget follows it and is the last one
InverseGate == Len(cs.a_L) - 2

\* the constraint system with another assignment of var_l and var_r: the wires of
\* their gate, and those of the non-zero gadget's gate, which its constraints tie to them
OtherWitness(c, g, l, r) ==
  [c EXCEPT !.a_L[g + 1] = l, !.a_R[g + 1] = r, !.a_O[g + 1] = FMul(l, r),
            !.a_L[g + 2] = l, !.a_R[g + 2] = r, !.a_O[g + 2] = FMul(l, r)]

\* C12: in every assignment that satisfies all the constraints emitted so far, the
\* variable v_L of the Inverse S-box just synthesised has the value of x + k, and the
\* returned variable v_R the value of (x + k)^-1.
C12_InverseBindsInput ==
  (/\ InverseJustSynthesised
   /\ sbox_outputs[InverseSlot] = LCFromVar(MultiplierRight(InverseGate))) =>
    \A l, r \in Fp :
      LET other == OtherWitness(cs, InverseGate, l, r)
      IN Satisfied(other) =>
           /\ l = evaluate_lc(other, InverseInput)
           /\ FMul(r, evaluate_lc(other, InverseInput)) = 1

\* C13: whatever the caller did with the constraint system before the call, a pending
\* allocate_single included, synthesize_inverse_sbox never aborts on var_o.unwrap():
\* its second allocate_single returns the output wire of the gate of v_L and v_R.
C13_InverseOutputWire ==
  /\ panic # "var_o.unwrap() on None"
  /\ (InverseJustSynthesised /\ cs.pending_multiplier = -1) =>
       sbox_outputs[InverseSlot] = LCFromVar(MultiplierRight(InverseGate))
====
